---- MODULE Spec2Model ----
(***************************************************************************)
(* Model of app.py, the Streamlit sales dashboard: the cached load_data,   *)
(* the sidebar widgets, the filter application, the metric cards, the      *)
(* Top-10 aggregations and the detail table, one script run after another. *)
(*                                                                         *)
(* Numbers are exact rationals [t, n, d]; t tells a number from the float  *)
(* NaN, from an infinity and from a text cell that is no number.           *)
(* data_venda is an integer yyyymmddh: a calendar date and a time of day.  *)
(* Categorical values (categoria, vendedor, fornecedor, produto) are       *)
(* naturals standing for texts in their lexicographic order; cliente is a  *)
(* sequence of characters, <<>> standing for a missing cell.               *)
(***************************************************************************)
EXTENDS Integers, Sequences, FiniteSets, TLC

\* ------------------------------------------------------------------ bounds
MaxRows == 2      \* rows of a small source file
MaxRuns == 2      \* script runs of one session
MaxWide == 12     \* rows of a wide source file (more groups than a Top 10)

\* head(10) of the three leaderboards
TopN == 10

VARIABLES
    file,         \* the source vendas2018_2023.csv: [status, rows]
    cache,        \* st.cache_data entry of load_data: [set, value, msgs]
    reads,        \* number of pd.read_csv calls made so far
    runs,         \* number of script runs started so far
    pc,           \* position of the current script run
    errors,       \* st.error messages surfaced in the current run
    warnings,     \* st.warning messages surfaced in the current run
    widgets,      \* sidebar widget state kept by the session
    df_raw,       \* the script's df_raw
    df_filtered,  \* the script's df_filtered
    metrics,      \* the values shown by the six metric cards
    charts,       \* fat_por_cat, fat_por_vend, fat_por_prod
    df_display    \* the detail table, also the exported CSV

vars == <<file, cache, reads, runs, pc, errors, warnings, widgets,
          df_raw, df_filtered, metrics, charts, df_display>>

\* ------------------------------------------------------------------ numbers
NaN == [t |-> "nan", n |-> 0, d |-> 1]
Str == [t |-> "str", n |-> 0, d |-> 1]
PosInf == [t |-> "inf", n |-> 1, d |-> 1]
NegInf == [t |-> "inf", n |-> -1, d |-> 1]

Abs(x) == IF x < 0 THEN -x ELSE x

RECURSIVE Gcd(_, _)
Gcd(a, b) == IF b = 0 THEN a ELSE Gcd(b, a % b)

\* the rational a/b in lowest terms with a positive denominator (b # 0)
Frac(a, b) ==
    LET g == Gcd(Abs(a), Abs(b))
        s == IF b < 0 THEN -1 ELSE 1
    IN [t |-> "num", n |-> (s * a) \div g, d |-> Abs(b) \div g]

Num(k) == [t |-> "num", n |-> k, d |-> 1]

IsNum(x) == x.t = "num"

\* float arithmetic of numeric columns: NaN propagates
Mul(a, b) ==
    IF IsNum(a) /\ IsNum(b) THEN Frac(a.n * b.n, a.d * b.d) ELSE NaN

Sub(a, b) ==
    IF IsNum(a) /\ IsNum(b) THEN Frac(a.n * b.d - b.n * a.d, a.d * b.d) ELSE NaN

Add(a, b) ==
    IF IsNum(a) /\ IsNum(b) THEN Frac(a.n * b.d + b.n * a.d, a.d * b.d) ELSE NaN

\* numpy float division: x/0 is an infinity, 0/0 is NaN, nothing is raised
Div(a, b) ==
    IF ~(IsNum(a) /\ IsNum(b)) THEN NaN
    ELSE IF b.n = 0 THEN (IF a.n = 0 THEN NaN ELSE IF a.n > 0 THEN PosInf ELSE NegInf)
    ELSE Frac(a.n * b.d, a.d * b.n)

Gt(a, b) == IsNum(a) /\ IsNum(b) /\ a.n * b.d > b.n * a.d

\* ------------------------------------------------------------------ load_data
YearOf(ts) == ts \div 100000
MonthOf(ts) == (ts \div 1000) % 100
\* the "AAAA-MM" text of a month, as the number yyyymm (same order)
MonthKey(ts) == ts \div 1000
\* .dt.date / .date(): the calendar date of a timestamp
DateOf(ts) == ts \div 10

\* a numeric column holding a text cell is an object column of str, and
\* str * float, str - number and str - str raise TypeError
ArithmeticRaises(rows) ==
    \E i \in DOMAIN rows :
        Str \in {rows[i].quantidade, rows[i].valor_venda, rows[i].valor_custo}

MargemPctByCost(x) ==
    IF x.custo_total # Num(0) THEN Div(x.lucro, x.custo_total) ELSE Num(0)

\* the lambda of df.apply on row x:
\* lucro / faturamento if faturamento != 0 else 0.0
MargemPct(x) ==
    IF x.faturamento # Num(0) THEN Div(x.lucro, x.faturamento) ELSE Num(0)

\* row i of the frame after the derived columns are added
Derived(r, i) ==
    LET faturamento == Mul(r.quantidade, r.valor_venda)
        custo_total == Mul(r.quantidade, r.valor_custo)
        x == [idx |-> i,
              data_venda |-> r.data_venda,
              cliente |-> r.cliente,
              vendedor |-> r.vendedor,
              produto |-> r.produto,
              categoria |-> r.categoria,
              fornecedor |-> r.fornecedor,
              quantidade |-> r.quantidade,
              valor_venda |-> r.valor_venda,
              valor_custo |-> r.valor_custo,
              ano |-> YearOf(r.data_venda),
              mes |-> MonthOf(r.data_venda),
              mes_ano |-> MonthKey(r.data_venda),
              faturamento |-> faturamento,
              custo_total |-> custo_total,
              lucro |-> Sub(faturamento, custo_total)]
    IN [c \in DOMAIN x \cup {"margem_pct"} |->
            IF c = "margem_pct" THEN MargemPct(x) ELSE x[c]]

\* pd.to_numeric(errors='coerce').fillna(0) of one cell
ToNumeric(x) == IF x.t \in {"nan", "str"} THEN Num(0) ELSE x

cols_num == {"quantidade", "valor_venda", "valor_custo", "faturamento",
             "custo_total", "lucro", "margem_pct"}

Coerced(r) ==
    [c \in DOMAIN r |-> IF c \in cols_num THEN ToNumeric(r[c]) ELSE r[c]]

MinOf(S) == CHOOSE x \in S : \A y \in S : x <= y
MaxOf(S) == CHOOSE x \in S : \A y \in S : x >= y

\* the order an unsorted frame is returned in by a load that does not sort
InSourceOrder(S) ==
    {[i \in 1..Cardinality(S) |-> CHOOSE r \in S : r.idx = i]}

RECURSIVE SortByDate(_)
\* df.sort_values('data_venda'): ascending; the default kind is quicksort,
\* which is not stable, so rows of equal data_venda come in any order
SortByDate(S) ==
    IF S = {} THEN {<<>>}
    ELSE LET m == MinOf({r.data_venda : r \in S})
         IN UNION {{<<r>> \o rest : rest \in SortByDate(S \ {r})} :
                       r \in {x \in S : x.data_venda = m}}

Prepared(rows) == {Coerced(Derived(rows[i], i)) : i \in DOMAIN rows}

LoadOutcomesSilent(f) ==
    IF f.status # "ok" \/ ArithmeticRaises(f.rows) \/ f.rows = <<>>
        THEN {[value |-> <<>>, msgs |-> <<>>]}
    ELSE {[value |-> s, msgs |-> <<>>] : s \in SortByDate(Prepared(f.rows))}

\* what one uncached execution of load_data returns and the st.error
\* messages it surfaces
LoadOutcomes(f) ==
    IF f.status = "missing"
        THEN {[value |-> <<>>, msgs |-> <<"not_found">>]}
    ELSE IF f.status = "malformed" \/ ArithmeticRaises(f.rows)
        THEN {[value |-> <<>>, msgs |-> <<"load_error">>]}
    ELSE IF f.rows = <<>>
        \* a file of a header alone: df.apply returns a frame, and assigning
        \* it to one column raises or not with the pandas version
        THEN {[value |-> <<>>, msgs |-> <<"load_error">>],
              [value |-> <<>>, msgs |-> <<>>]}
    ELSE {[value |-> s, msgs |-> <<>>] : s \in SortByDate(Prepared(f.rows))}

CacheNever(c) == FALSE

\* st.cache_data: a stored entry answers the call
CacheHit(c) == c.set

\* ------------------------------------------------------------------ sidebar
ValuesOf(df, col) == {df[i][col] : i \in DOMAIN df}

NoWidgets ==
    [rendered |-> FALSE, start_date |-> 0, end_date |-> 0, years |-> {},
     cats |-> {}, sellers |-> {}, suppliers |-> {}, products |-> {},
     search |-> <<>>]

\* the value each widget takes the first time it is rendered
Defaults(df) ==
    [rendered |-> TRUE,
     start_date |-> DateOf(MinOf(ValuesOf(df, "data_venda"))),
     end_date |-> DateOf(MaxOf(ValuesOf(df, "data_venda"))),
     years |-> ValuesOf(df, "ano"),
     cats |-> ValuesOf(df, "categoria"),
     sellers |-> ValuesOf(df, "vendedor"),
     suppliers |-> ValuesOf(df, "fornecedor"),
     products |-> {},
     search |-> <<>>]

\* texts a user types into "Buscar Cliente (contem)"
Searches == {<<>>, <<"a">>, <<"B">>, <<".">>, <<"(">>}

Toggle(S, x) == IF x \in S THEN S \ {x} ELSE S \cup {x}

\* the widget states one user interaction leads to: one option of one
\* multiselect clicked, one date picked within [min_date, max_date], the
\* search text edited, or a plain rerun
Interactions(w, df) ==
    {w} \cup
    IF ~w.rendered THEN {} ELSE
        {[w EXCEPT !.years = Toggle(@, y)] : y \in ValuesOf(df, "ano")}
        \cup {[w EXCEPT !.cats = Toggle(@, y)] : y \in ValuesOf(df, "categoria")}
        \cup {[w EXCEPT !.sellers = Toggle(@, y)] : y \in ValuesOf(df, "vendedor")}
        \cup {[w EXCEPT !.suppliers = Toggle(@, y)] : y \in ValuesOf(df, "fornecedor")}
        \cup {[w EXCEPT !.products = Toggle(@, y)] : y \in ValuesOf(df, "produto")}
        \cup {[w EXCEPT !.start_date = DateOf(t)] : t \in ValuesOf(df, "data_venda")}
        \cup {[w EXCEPT !.end_date = DateOf(t)] : t \in ValuesOf(df, "data_venda")}
        \cup {[w EXCEPT !.search = s] : s \in Searches}

\* ------------------------------------------------------------------ filters
Lower(c) == CASE c = "A" -> "a" [] c = "B" -> "b" [] OTHER -> c

\* re.compile(pat): over the characters used here a "(" is never closed
ReCompiles(pat) == \A k \in DOMAIN pat : pat[k] # "("

\* pat.search(s) with re.IGNORECASE: "." stands for any character
ReSearch(pat, s) ==
    \E i \in 1..(Len(s) - Len(pat) + 1) :
        \A k \in DOMAIN pat :
            pat[k] = "." \/ Lower(pat[k]) = Lower(s[i + k - 1])

\* Series.str.contains(pat, case=False, na=False) on one cell
StrContains(cliente, pat) == cliente # <<>> /\ ReSearch(pat, cliente)

MaskDate(df, w) ==
    SelectSeq(df, LAMBDA r : DateOf(r.data_venda) >= w.start_date
                             /\ DateOf(r.data_venda) <= w.end_date)

IsIn(df, col, selected) ==
    IF selected # {} THEN SelectSeq(df, LAMBDA r : r[col] \in selected) ELSE df

\* a column of missing cells alone is float64 and has no .str accessor;
\* a pattern that does not compile raises re.error
FilterRaises(df, w) ==
    /\ w.search # <<>>
    /\ \/ \A i \in DOMAIN df : df[i].cliente = <<>>
       \/ ~ReCompiles(w.search)

Filtered(df, w) ==
    LET f1 == MaskDate(df, w)
        f2 == IsIn(f1, "ano", w.years)
        f3 == IsIn(f2, "categoria", w.cats)
        f4 == IsIn(f3, "vendedor", w.sellers)
        f5 == IsIn(f4, "fornecedor", w.suppliers)
        f6 == IsIn(f5, "produto", w.products)
    IN IF w.search # <<>>
           THEN SelectSeq(f6, LAMBDA r : StrContains(r.cliente, w.search))
           ELSE f6

\* ------------------------------------------------------------------ metrics
RECURSIVE SumCol(_, _)
\* df[col].sum()
SumCol(df, col) ==
    IF df = <<>> THEN Num(0) ELSE Add(df[1][col], SumCol(Tail(df), col))

NoMetrics ==
    [total_faturamento |-> Num(0), total_lucro |-> Num(0),
     margem_global |-> Num(0), total_qtd |-> Num(0), num_vendas |-> 0,
     ticket_medio |-> Num(0)]

MargemGlobalUnguarded(total_lucro, total_faturamento) ==
    Div(total_lucro, total_faturamento)

\* (total_lucro / total_faturamento) if total_faturamento > 0 else 0
MargemGlobal(total_lucro, total_faturamento) ==
    IF Gt(total_faturamento, Num(0))
        THEN Div(total_lucro, total_faturamento) ELSE Num(0)

\* (total_faturamento / num_vendas) if num_vendas > 0 else 0
TicketMedio(total_faturamento, num_vendas) ==
    IF num_vendas > 0 THEN Div(total_faturamento, Num(num_vendas)) ELSE Num(0)

MetricsOf(df) ==
    LET total_faturamento == SumCol(df, "faturamento")
        total_lucro == SumCol(df, "lucro")
    IN [total_faturamento |-> total_faturamento,
        total_lucro |-> total_lucro,
        margem_global |-> MargemGlobal(total_lucro, total_faturamento),
        total_qtd |-> SumCol(df, "quantidade"),
        num_vendas |-> Len(df),
        ticket_medio |-> TicketMedio(total_faturamento, Len(df))]

\* ------------------------------------------------------------------ charts
RECURSIVE KeysAsc(_)
KeysAsc(S) ==
    IF S = {} THEN <<>>
    ELSE LET m == MinOf(S) IN <<m>> \o KeysAsc(S \ {m})

\* df.groupby(key)['faturamento'].sum().reset_index(): one row per key, in
\* ascending key order (groupby sorts the keys)
GroupSum(df, key) ==
    LET keys == KeysAsc(ValuesOf(df, key))
    IN [i \in DOMAIN keys |->
            [key |-> keys[i],
             faturamento |->
                 SumCol(SelectSeq(df, LAMBDA r : r[key] = keys[i]), "faturamento")]]

RECURSIVE SortAsc(_, _)
SortAsc(g, I) ==
    IF I = {} THEN {<<>>}
    ELSE LET lo == {i \in I : \A j \in I : ~Gt(g[i].faturamento, g[j].faturamento)}
         IN UNION {{<<g[i]>> \o rest : rest \in SortAsc(g, I \ {i})} : i \in lo}

RECURSIVE SortDesc(_, _)
\* sort_values('faturamento', ascending=False) of the rows I of g: the
\* default quicksort is not stable, so rows of equal value come in any order
SortDesc(g, I) ==
    IF I = {} THEN {<<>>}
    ELSE LET hi == {i \in I : \A j \in I : ~Gt(g[j].faturamento, g[i].faturamento)}
         IN UNION {{<<g[i]>> \o rest : rest \in SortDesc(g, I \ {i})} : i \in hi}

HeadOneMore(s, n) == SubSeq(s, 1, IF Len(s) < n + 1 THEN Len(s) ELSE n + 1)

\* .head(n)
HeadN(s, n) == SubSeq(s, 1, IF Len(s) < n THEN Len(s) ELSE n)

\* the frames a Top 10 aggregation can produce
TopByFaturamento(df, key) ==
    LET g == GroupSum(df, key)
    IN {HeadN(s, TopN) : s \in SortDesc(g, DOMAIN g)}

NoCharts == [fat_por_cat |-> <<>>, fat_por_vend |-> <<>>, fat_por_prod |-> <<>>]

\* ------------------------------------------------------------------ table
cols_view == {"data_venda", "cliente", "vendedor", "produto", "categoria",
              "fornecedor", "quantidade", "valor_venda", "valor_custo",
              "faturamento", "lucro", "margem_pct"}

Display(df) == [i \in DOMAIN df |-> [c \in cols_view |-> df[i][c]]]

\* ------------------------------------------------------------------ source files
BaseRow ==
    [data_venda |-> 202301050, cliente |-> <<"A", "b">>, vendedor |-> 1,
     produto |-> 1, categoria |-> 1, fornecedor |-> 1,
     quantidade |-> Num(2), valor_venda |-> Num(10), valor_custo |-> Num(4)]

\* rows with at most one cell away from BaseRow: missing, text, zero
\* quantity, a returned unit, a cost above the price
CellRows ==
    {BaseRow}
    \cup {[BaseRow EXCEPT !.quantidade = q] : q \in {NaN, Str, Num(0), Num(-1)}}
    \cup {[BaseRow EXCEPT !.valor_venda = v] : v \in {NaN, Str}}
    \cup {[BaseRow EXCEPT !.valor_custo = v] : v \in {NaN, Str, Num(30)}}

\* files of CellRows, row i sold at hour i of the same day
CellFiles ==
    UNION {{[i \in 1..n |-> [f[i] EXCEPT !.data_venda = 202301050 + i]] :
                f \in [1..n -> CellRows]} : n \in 0..MaxRows}

\* rows that differ in the time of sale: same instant, same day, next year
DateRows ==
    {[BaseRow EXCEPT !.data_venda = t] : t \in {202301050, 202301051, 202402200}}

\* rows that differ in what the filters look at
FilterRows ==
    {[BaseRow EXCEPT !.data_venda = 202301051, !.cliente = <<"b", ".">>,
                     !.categoria = 2],
     [BaseRow EXCEPT !.data_venda = 202402200, !.cliente = <<>>,
                     !.vendedor = 2, !.produto = 2],
     [BaseRow EXCEPT !.data_venda = 202402200, !.categoria = 2,
                     !.vendedor = 2, !.quantidade = Num(0)]}

SmallFiles ==
    CellFiles
    \cup UNION {[1..n -> DateRows] : n \in 1..MaxRows}
    \cup UNION {[1..n -> FilterRows] : n \in 1..MaxRows}

\* a file of n rows, one a day, over 11 products, 3 categories and 2
\* sellers, quantity i on row i, except that row t (if any) sells as much
\* as row t + 1
WideFile(n, t) ==
    [i \in 1..n |->
        [BaseRow EXCEPT !.data_venda = 202301000 + 10 * i,
                        !.produto = ((i - 1) % (TopN + 1)) + 1,
                        !.categoria = (i % 3) + 1,
                        !.vendedor = (i % 2) + 1,
                        !.quantidade = Num(IF i = t THEN i + 1 ELSE i)]]

WideFiles ==
    {WideFile(n, t) : n \in (MaxWide - 2)..MaxWide, t \in {0, 1, TopN}}

\* ------------------------------------------------------------------ script
Halted == {"stopped_raw", "stopped_empty", "crashed", "done"}

InitWith(files) ==
    /\ file \in {[status |-> "missing", rows |-> <<>>],
                 [status |-> "malformed", rows |-> <<>>]}
                \cup {[status |-> "ok", rows |-> f] : f \in files}
    /\ cache = [set |-> FALSE, value |-> <<>>, msgs |-> <<>>]
    /\ reads = 0
    /\ runs = 1
    /\ pc = "load"
    /\ errors = <<>>
    /\ warnings = <<>>
    /\ widgets = NoWidgets
    /\ df_raw = <<>>
    /\ df_filtered = <<>>
    /\ metrics = NoMetrics
    /\ charts = NoCharts
    /\ df_display = <<>>

Init == InitWith(SmallFiles)

InitWide == InitWith(WideFiles)

\* df_raw = load_data(), under @st.cache_data: a hit returns the stored
\* value and replays the stored messages
LoadData ==
    /\ pc = "load"
    /\ IF CacheHit(cache)
          THEN /\ df_raw' = cache.value
               /\ errors' = errors \o cache.msgs
               /\ UNCHANGED <<cache, reads>>
          ELSE \E o \in LoadOutcomes(file) :
               /\ reads' = reads + 1
               /\ cache' = [set |-> TRUE, value |-> o.value, msgs |-> o.msgs]
               /\ df_raw' = o.value
               /\ errors' = errors \o o.msgs
    /\ pc' = "check_raw"
    /\ UNCHANGED <<file, runs, warnings, widgets, df_filtered, metrics,
                   charts, df_display>>

\* df_raw.empty
RawEmpty(df) == df = <<>>

\* if df_raw.empty: st.stop()
CheckRaw ==
    /\ pc = "check_raw"
    /\ pc' = IF RawEmpty(df_raw) THEN "stopped_raw" ELSE "sidebar"
    /\ UNCHANGED <<file, cache, reads, runs, errors, warnings, widgets,
                   df_raw, df_filtered, metrics, charts, df_display>>

\* the sidebar widgets: defaults when first rendered, the session's value after
Sidebar ==
    /\ pc = "sidebar"
    /\ widgets' = IF widgets.rendered THEN widgets ELSE Defaults(df_raw)
    /\ pc' = "filter"
    /\ UNCHANGED <<file, cache, reads, runs, errors, warnings, df_raw,
                   df_filtered, metrics, charts, df_display>>

\* the filter application; an exception ends the run
ApplyFilters ==
    /\ pc = "filter"
    /\ IF FilterRaises(df_raw, widgets)
          THEN pc' = "crashed" /\ UNCHANGED df_filtered
          ELSE pc' = "check_filtered" /\ df_filtered' = Filtered(df_raw, widgets)
    /\ UNCHANGED <<file, cache, reads, runs, errors, warnings, widgets,
                   df_raw, metrics, charts, df_display>>

\* if df_filtered.empty: st.warning(...); st.stop()
CheckFiltered ==
    /\ pc = "check_filtered"
    /\ IF df_filtered = <<>>
          THEN pc' = "stopped_empty" /\ warnings' = Append(warnings, "no_data")
          ELSE pc' = "metrics" /\ UNCHANGED warnings
    /\ UNCHANGED <<file, cache, reads, runs, errors, widgets, df_raw,
                   df_filtered, metrics, charts, df_display>>

\* the six metric cards
Metrics ==
    /\ pc = "metrics"
    /\ metrics' = MetricsOf(df_filtered)
    /\ pc' = "charts"
    /\ UNCHANGED <<file, cache, reads, runs, errors, warnings, widgets,
                   df_raw, df_filtered, charts, df_display>>

\* the chart section: the three Top 10 frames
Charts ==
    /\ pc = "charts"
    /\ \E c \in TopByFaturamento(df_filtered, "categoria") :
       \E v \in TopByFaturamento(df_filtered, "vendedor") :
       \E p \in TopByFaturamento(df_filtered, "produto") :
           charts' = [fat_por_cat |-> c, fat_por_vend |-> v, fat_por_prod |-> p]
    /\ pc' = "table"
    /\ UNCHANGED <<file, cache, reads, runs, errors, warnings, widgets,
                   df_raw, df_filtered, metrics, df_display>>

\* the detail table and the CSV behind the download button
Table ==
    /\ pc = "table"
    /\ df_display' = Display(df_filtered)
    /\ pc' = "done"
    /\ UNCHANGED <<file, cache, reads, runs, errors, warnings, widgets,
                   df_raw, df_filtered, metrics, charts>>

\* a user interaction starts the script again: a fresh module namespace,
\* the session's widget state and the cache are kept
Rerun ==
    /\ pc \in Halted
    /\ runs < MaxRuns
    /\ \E w \in Interactions(widgets, df_raw) : widgets' = w
    /\ runs' = runs + 1
    /\ pc' = "load"
    /\ errors' = <<>>
    /\ warnings' = <<>>
    /\ df_raw' = <<>>
    /\ df_filtered' = <<>>
    /\ metrics' = NoMetrics
    /\ charts' = NoCharts
    /\ df_display' = <<>>
    /\ UNCHANGED <<file, cache, reads>>

Next ==
    \/ LoadData
    \/ CheckRaw
    \/ Sidebar
    \/ ApplyFilters
    \/ CheckFiltered
    \/ Metrics
    \/ Charts
    \/ Table
    \/ Rerun

Spec == Init /\ [][Next]_vars

SpecWide == InitWide /\ [][Next]_vars

\* ------------------------------------------------------------------ claims
Loaded == pc # "load"
FilterDone == pc \in {"check_filtered", "metrics", "charts", "table", "done",
                      "stopped_empty"}
MetricsReported == pc \in {"charts", "table", "done"}
ChartsShown == pc \in {"table", "done"}

\* C1: every row returned by load_data has faturamento = quantidade x
\* valor_venda and lucro = faturamento - quantidade x valor_custo on its
\* final (coerced) field values.
C1_RevenueProfitExact ==
    \A i \in DOMAIN df_raw :
        LET r == df_raw[i]
        IN /\ r.faturamento = Mul(r.quantidade, r.valor_venda)
           /\ r.lucro = Sub(r.faturamento, Mul(r.quantidade, r.valor_custo))

\* C2: every row returned by load_data has margem_pct = lucro / faturamento
\* when faturamento is not 0 and exactly 0 when it is 0, and margem_pct is a
\* finite number.
C2_MarginGuarded ==
    \A i \in DOMAIN df_raw :
        LET r == df_raw[i]
        IN /\ IsNum(r.margem_pct)
           /\ r.faturamento # Num(0) => r.margem_pct = Div(r.lucro, r.faturamento)
           /\ r.faturamento = Num(0) => r.margem_pct = Num(0)

\* a row of quantity 0, price 10, cost 4 with margin 0 next to a row of
\* margin 12/20
C2_Witness ==
    /\ \E i \in DOMAIN df_raw :
          /\ df_raw[i].quantidade = Num(0)
          /\ df_raw[i].valor_venda = Num(10)
          /\ df_raw[i].valor_custo = Num(4)
          /\ df_raw[i].margem_pct = Num(0)
    /\ \E i \in DOMAIN df_raw : df_raw[i].margem_pct = Frac(3, 5)

\* C3: a text or missing cell in quantidade, valor_venda or valor_custo never
\* aborts the load: load_data returns every row of the file, the cell
\* replaced by 0, and surfaces no error.
C3_BadCellNeverAborts ==
    (Loaded /\ file.status = "ok" /\ file.rows # <<>>) =>
        /\ errors = <<>>
        /\ Len(df_raw) = Len(file.rows)
        /\ \A i \in DOMAIN df_raw :
              LET src == file.rows[df_raw[i].idx]
              IN /\ df_raw[i].quantidade = ToNumeric(src.quantidade)
                 /\ df_raw[i].valor_venda = ToNumeric(src.valor_venda)
                 /\ df_raw[i].valor_custo = ToNumeric(src.valor_custo)

LoadFails ==
    file.status # "ok" \/ ArithmeticRaises(file.rows) \/ errors # <<>>

\* C4: when the file is missing or the load fails in any other way,
\* load_data returns an empty frame with exactly one error message surfaced,
\* and the run stops before the sidebar, filter, metric, chart and table
\* steps.
C4_LoadFailureHalts ==
    (Loaded /\ LoadFails) =>
        /\ Len(errors) = 1
        /\ df_raw = <<>>
        /\ pc \in {"check_raw", "stopped_raw"}
        /\ ~widgets.rendered
        /\ warnings = <<>>
        /\ df_filtered = <<>>
        /\ metrics = NoMetrics
        /\ charts = NoCharts
        /\ df_display = <<>>

\* a second run of a session whose file is missing has stopped after load
C4_Witness ==
    /\ file.status = "missing"
    /\ runs = 2
    /\ pc = "stopped_raw"
    /\ errors = <<"not_found">>

\* pat occurs in s as a literal substring, letter case ignored
LiteralSearch(pat, s) ==
    \E i \in 1..(Len(s) - Len(pat) + 1) :
        \A k \in DOMAIN pat : Lower(pat[k]) = Lower(s[i + k - 1])

\* the filter of the claim: the rows that pass every predicate, the search
\* text taken as a literal
LiteralFiltered(df, w) ==
    SelectSeq(df, LAMBDA r :
        /\ w.start_date <= DateOf(r.data_venda)
        /\ DateOf(r.data_venda) <= w.end_date
        /\ w.years = {} \/ r.ano \in w.years
        /\ w.cats = {} \/ r.categoria \in w.cats
        /\ w.sellers = {} \/ r.vendedor \in w.sellers
        /\ w.suppliers = {} \/ r.fornecedor \in w.suppliers
        /\ w.products = {} \/ r.produto \in w.products
        /\ w.search = <<>> \/ (r.cliente # <<>> /\ LiteralSearch(w.search, r.cliente)))

\* C5: for every criteria the filter step yields exactly the rows, in order,
\* that lie in the date range, belong to every non-empty allow-list and whose
\* cliente contains the search text as a case-insensitive literal substring.
C5_FilterIsLiteral ==
    /\ pc # "crashed"
    /\ FilterDone => df_filtered = LiteralFiltered(df_raw, widgets)

\* C6 as stated: every run whose filter step completed, the empty result
\* included, reports margem_global and ticket_medio (0 for an empty result).
C6_MetricsAlwaysReported ==
    (FilterDone /\ pc \in Halted) =>
        /\ MetricsReported
        /\ df_filtered = <<>> =>
              metrics.margem_global = Num(0) /\ metrics.ticket_medio = Num(0)

\* C6: when the metric cards are shown the filtered frame is not empty,
\* margem_global = total_lucro / total_faturamento if total_faturamento > 0
\* else 0 and ticket_medio = total_faturamento / num_vendas, both finite;
\* for an empty filtered frame the run warns and stops before the metrics.
C6_MetricsGuarded ==
    /\ MetricsReported =>
          LET tf == SumCol(df_filtered, "faturamento")
              tl == SumCol(df_filtered, "lucro")
          IN /\ df_filtered # <<>>
             /\ metrics.num_vendas = Len(df_filtered)
             /\ IsNum(metrics.margem_global) /\ IsNum(metrics.ticket_medio)
             /\ Gt(tf, Num(0)) => metrics.margem_global = Div(tl, tf)
             /\ ~Gt(tf, Num(0)) => metrics.margem_global = Num(0)
             /\ metrics.ticket_medio = Div(tf, Num(Len(df_filtered)))
    /\ (FilterDone /\ df_filtered = <<>> /\ pc \in Halted) =>
          /\ pc = "stopped_empty"
          /\ warnings = <<"no_data">>
          /\ metrics = NoMetrics

\* metrics shown for rows whose revenue sums to 0
C6_Witness ==
    /\ MetricsReported
    /\ metrics.num_vendas > 0
    /\ metrics.total_faturamento = Num(0)
    /\ metrics.margem_global = Num(0)

ChartFrames ==
    {<<charts.fat_por_cat, "categoria">>, <<charts.fat_por_vend, "vendedor">>,
     <<charts.fat_por_prod, "produto">>}

FirstIndex(df, key, k) == MinOf({i \in DOMAIN df : df[i][key] = k})

\* C7 as stated: in every leaderboard two groups of equal summed revenue
\* appear in the order their keys are first met in the filtered frame.
C7_TiesInEncounterOrder ==
    ChartsShown =>
        \A fk \in ChartFrames :
            \A i, j \in DOMAIN fk[1] :
                (i < j /\ fk[1][i].faturamento = fk[1][j].faturamento) =>
                    FirstIndex(df_filtered, fk[2], fk[1][i].key)
                        < FirstIndex(df_filtered, fk[2], fk[1][j].key)

\* C7: every leaderboard is in non-increasing order of summed revenue; the
\* order of two groups of equal sum is not fixed by the order of encounter.
C7_SortedDescending ==
    ChartsShown =>
        \A fk \in ChartFrames :
            \A i, j \in DOMAIN fk[1] :
                i < j => ~Gt(fk[1][j].faturamento, fk[1][i].faturamento)

\* two categories of equal revenue, the one met later shown first
C7_Witness ==
    /\ ChartsShown
    /\ \E i, j \in DOMAIN charts.fat_por_cat :
          /\ i < j
          /\ charts.fat_por_cat[i].faturamento = charts.fat_por_cat[j].faturamento
          /\ FirstIndex(df_filtered, "categoria", charts.fat_por_cat[i].key)
                > FirstIndex(df_filtered, "categoria", charts.fat_por_cat[j].key)

\* C8 as stated: df_raw is ascending by data_venda and rows of equal
\* data_venda keep their order in the file.
C8_SortedStable ==
    \A i, j \in DOMAIN df_raw :
        i < j => \/ df_raw[i].data_venda < df_raw[j].data_venda
                 \/ /\ df_raw[i].data_venda = df_raw[j].data_venda
                    /\ df_raw[i].idx < df_raw[j].idx

\* C8: df_raw is ascending by data_venda and holds every row of the file
\* once; rows of equal data_venda come in any order.
C8_SortedByDate ==
    /\ \A i, j \in DOMAIN df_raw :
          i < j => df_raw[i].data_venda <= df_raw[j].data_venda
    /\ (Loaded /\ ~LoadFails) =>
          /\ Len(df_raw) = Len(file.rows)
          /\ {df_raw[i].idx : i \in DOMAIN df_raw} = DOMAIN file.rows
          /\ \A i \in DOMAIN df_raw :
                df_raw[i].data_venda = file.rows[df_raw[i].idx].data_venda

\* a later row of the file sold earlier, moved ahead by the sort
C8_Witness ==
    \E i, j \in DOMAIN df_raw :
        /\ i < j
        /\ df_raw[i].idx > df_raw[j].idx
        /\ df_raw[i].data_venda < df_raw[j].data_venda

\* C9: across the reruns of a session the file is read at most once, the
\* cache entry never changes once stored, and every run works on the stored
\* frame.
C9_LoadedOnce ==
    /\ [](reads <= 1)
    /\ [][cache.set => cache' = cache]_vars
    /\ [](Loaded => (cache.set /\ df_raw = cache.value))

\* a second run, after a filter change, completed on one read
C9_Witness ==
    /\ runs = 2
    /\ pc = "done"
    /\ reads = 1
    /\ widgets # Defaults(df_raw)
    /\ Len(df_filtered) < Len(df_raw)

\* C10: every Top 10 frame has min(10, number of groups) rows, one per
\* group, in non-increasing order of revenue, each with the exact sum of its
\* group over the filtered rows, and no group left out has a larger sum than
\* one shown.
C10_Top10 ==
    ChartsShown =>
        \A fk \in ChartFrames :
            LET frame == fk[1]
                groups == ValuesOf(df_filtered, fk[2])
                shown == {frame[i].key : i \in DOMAIN frame}
                total(k) == SumCol(SelectSeq(df_filtered, LAMBDA r : r[fk[2]] = k),
                                   "faturamento")
            IN /\ Len(frame) = IF Cardinality(groups) < 10
                                  THEN Cardinality(groups) ELSE 10
               /\ Cardinality(shown) = Len(frame)
               /\ shown \subseteq groups
               /\ \A i \in DOMAIN frame : frame[i].faturamento = total(frame[i].key)
               /\ \A i, j \in DOMAIN frame :
                     i < j => ~Gt(frame[j].faturamento, frame[i].faturamento)
               /\ \A k \in groups \ shown :
                     \A i \in DOMAIN frame : ~Gt(total(k), frame[i].faturamento)

\* eleven products filtered in, ten shown, the one of least revenue left out
C10_Witness ==
    /\ ChartsShown
    /\ Cardinality(ValuesOf(df_filtered, "produto")) = 11
    /\ Len(charts.fat_por_prod) = 10
    /\ Len(charts.fat_por_cat) = 3

====
